---- MODULE Spec2Model ----
(***************************************************************************)
(* A model of the BinSync repository client (binsync/core/client.py):      *)
(* the atomic_git_action wrapper, the public atomic API of Client          *)
(* (commit_state, get_state, users, pull, push, has_remote), the branch    *)
(* handling helpers and the attach / initialise algorithm.                  *)
(*                                                                         *)
(* The Scheduler, the Cache and the State module are imported by client.py *)
(* but are not part of the sources at hand; they are modelled from the     *)
(* specification (sections 4.1, 4.2 and 6) and are marked so in the map.   *)
(***************************************************************************)
EXTENDS Integers, Sequences, FiniteSets, TLC

\* ------------------------------------------------------------------------
\* Bounds of the model
\* ------------------------------------------------------------------------
MaxCommits == 3     \* commits in the object store, root commit included
MaxPayload == 2     \* distinct annotation payloads a State can carry
MaxPulls == 2       \* pull calls issued in one behaviour
MaxPushes == 1      \* push calls issued in one behaviour

\* ------------------------------------------------------------------------
\* Program constants
\* ------------------------------------------------------------------------
BINSYNC_BRANCH_PREFIX == "binsync"
ROOT == "__root__"
BINSYNC_ROOT_BRANCH == <<BINSYNC_BRANCH_PREFIX, ROOT>>
HASH_MISMATCH == 0

\* SchedSpeed: a larger number is served first.
FAST == 3
AVERAGE == 2
SLOW == 1
NoPriority == 0     \* priority=None

master_user == "alice"
other_user == "bob"
remote == "origin"
Users == {master_user, other_user}
DefaultBranch == "master"      \* the branch git init starts on
\* A branch that is no user branch, though its name ends with one's:
\* archive/binsync/alice
archived == "archive"
\* repo.branches is sorted by name: archive/binsync/alice, binsync/__root__,
\* binsync/alice, binsync/bob, master
BranchOrder == <<archived, ROOT, master_user, other_user, DefaultBranch>>
BranchNames == {archived, ROOT, master_user, other_user, DefaultBranch}

Threads == {"t1", "t2"}
Worker == "worker"
Executors == Threads \cup {Worker}

\* A State of the state module: its user and its (opaque) content.
NoState == [user |-> "", payload |-> 0]
StateOf(u, p) == [user |-> u, payload |-> p]
EmptyPayload == 1   \* State(master_user): metadata only
States == [user : Users, payload : 1..MaxPayload]

VARIABLES
    commits,        \* the object store: <<[parent, tree, user]>>, a commit is its index
    heads,          \* local branches binsync/<n>: n -> commit (0: no such branch)
    HEAD,           \* the checked-out local branch
    index,          \* the staged tree
    remoteRefs,     \* remote-tracking references origin/binsync/<n>: n -> commit (0: none)
    remoteHeads,    \* the branches of the remote repository itself
    has_origin,     \* whether a remote named self.remote is configured
    cache,          \* the Cache: [states, commits, users, has_users, branches]
    queue,          \* the Scheduler's pending jobs, in submission order
    running,        \* executor -> the job whose body it is executing
    thr,            \* host thread -> [pc, job, res, hit]
    workload,       \* host thread -> the operations it calls in this behaviour
    ts,             \* the Client's timestamps
    active_remote,  \* the Client's active_remote flag
    clients,        \* the Client objects: [status, error, binary_hash, connection_warnings, repo_lock]
    disk,           \* what repo_root is: "absent" or "repo"
    ref_todo,       \* _get_best_refs: the references still to enumerate
    ref_done,       \* _get_best_refs: the references enumerated so far
    ref_best,       \* _get_best_refs: its dictionary so far
    host            \* host thread -> where it is in update(), and the State it holds

vars == <<commits, heads, HEAD, index, remoteRefs, remoteHeads, has_origin, cache,
          queue, running, thr, workload, ts, active_remote, clients, disk,
          ref_todo, ref_done, ref_best, host>>

attachVars == <<clients, disk>>

refVars == <<ref_todo, ref_done, ref_best>>

repoVars == <<commits, heads, HEAD, index, remoteRefs>>

\* ------------------------------------------------------------------------
\* Small helpers
\* ------------------------------------------------------------------------
Last(s) == s[Len(s)]

Max(S) == CHOOSE x \in S : \A y \in S : y <= x

SeqToSet(s) == {s[i] : i \in 1..Len(s)}

\* ------------------------------------------------------------------------
\* References.  A reference name is its path, one element per segment:
\* binsync/alice is <<"binsync", "alice">>, origin/binsync/alice is
\* <<"origin", "binsync", "alice">>.  A reference is [name, remote_name, commit];
\* remote_name is "" for a local head (is_remote() is false).
\* ------------------------------------------------------------------------
user_branch_name == <<BINSYNC_BRANCH_PREFIX, master_user>>

\* The path of the local branch the model calls n.
BranchPath(n) ==
    IF n = DefaultBranch THEN <<n>>
    ELSE IF n = archived THEN <<archived, BINSYNC_BRANCH_PREFIX, master_user>>
    ELSE <<BINSYNC_BRANCH_PREFIX, n>>

LocalRef(n, c) == [name |-> BranchPath(n), remote_name |-> "", commit |-> c]

RemoteRef(r, n, c) == [name |-> <<r>> \o BranchPath(n), remote_name |-> r, commit |-> c]

is_remote(ref) == ref.remote_name # ""

\* s.endswith(suffix), on paths
EndsWith(s, suffix) ==
    /\ Len(s) >= Len(suffix)
    /\ SubSeq(s, Len(s) - Len(suffix) + 1, Len(s)) = suffix

\* 'binsync/' in name: the prefix is a segment that another segment follows
HasPrefixSegment(name) ==
    \E i \in 1..(Len(name) - 1) : name[i] = BINSYNC_BRANCH_PREFIX

\* name.split("/")[-1], kept as a path of one segment
LastSegment(name) == <<Last(name)>>

\* repo.branches, sorted by name, as the branch names present in h
Branches(h) == SelectSeq(BranchOrder, LAMBDA n : h[n] # 0)

\* repo.refs: the local heads, then the remote-tracking references
RepoRefs(h, rr) ==
    [i \in 1..Len(Branches(h)) |-> LocalRef(Branches(h)[i], h[Branches(h)[i]])]
    \o [i \in 1..Len(Branches(rr)) |-> RemoteRef(remote, Branches(rr)[i], rr[Branches(rr)[i]])]

\* One iteration of the loop of _get_best_refs.
BestRefsStep(candidates, ref, rem) ==
    IF ~HasPrefixSegment(ref.name) THEN candidates
    ELSE LET branch_name == LastSegment(ref.name) IN
         IF /\ branch_name \in DOMAIN candidates
            /\ (~is_remote(ref) \/ ref.remote_name # rem)
         THEN candidates
         ELSE [k \in DOMAIN candidates \cup {branch_name} |->
                 IF k = branch_name THEN ref ELSE candidates[k]]

RECURSIVE BestRefsFrom(_, _, _)
BestRefsFrom(candidates, refs, rem) ==
    IF refs = <<>> THEN candidates
    ELSE BestRefsFrom(BestRefsStep(candidates, Head(refs), rem), Tail(refs), rem)

\* Client._get_best_refs: a dictionary last-segment -> reference
get_best_refs(refs, rem) == BestRefsFrom(<<>>, refs, rem)

\* The dictionary of _get_commits_for_users, of the best references
commits_of(ref_dict) ==
    [k \in (IF BINSYNC_ROOT_BRANCH \in DOMAIN ref_dict
            THEN DOMAIN ref_dict \ {BINSYNC_ROOT_BRANCH}
            ELSE DOMAIN ref_dict) |-> ref_dict[k].commit]

\* Client._get_commits_for_users
get_commits_for_users(refs, rem) == commits_of(get_best_refs(refs, rem))

\* Client._get_tree: the commit whose tree is read for `user`; 0 when no
\* reference ends with binsync/<user> (ValueError).  max() keeps the first of
\* the references with the newest authored date.
get_tree(user, refs) ==
    LET options == SelectSeq(refs, LAMBDA r : EndsWith(r.name, <<BINSYNC_BRANCH_PREFIX, user>>))
    IN IF options = <<>> THEN 0
       ELSE LET newest == Max({options[i].commit : i \in 1..Len(options)})
            IN newest

\* What a call ends with: None, a State, the users, a flag, or a failure.
NoRes == [kind |-> "None", state |-> NoState, users |-> {}, flag |-> FALSE, err |-> ""]

StateRes(st) == IF st = NoState THEN NoRes ELSE [NoRes EXCEPT !.kind = "state", !.state = st]

UsersRes(us) == [NoRes EXCEPT !.kind = "users", !.users = us]

BoolRes(b) == [NoRes EXCEPT !.kind = "bool", !.flag = b]

Raise(e) == [NoRes EXCEPT !.kind = "raise", !.err = e]

\* ------------------------------------------------------------------------
\* The Cache (specification 4.1).  The state cache is keyed by user; an entry
\* stays while the head recorded for the user's branch in `commits` is the one
\* the last sweep saw.  The users cache is one value plus the branch-name set.
\* ------------------------------------------------------------------------
EmptyCache ==
    [states |-> [u \in Users |-> NoRes], commits |-> <<>>,
     users |-> {}, has_users |-> FALSE, branches |-> {}]

cache_get_state(c, user) == c.states[user]

cache_set_state(c, state, user) == [c EXCEPT !.states[user] = state]

cache_set_users(c, users_list) == [c EXCEPT !.users = users_list, !.has_users = TRUE]

\* update-state-commits: replace the (branch -> head) map and evict every
\* state whose branch head changed or disappeared.
update_state_cache_commits(c, commit_dict) ==
    [c EXCEPT
       !.states = [u \in Users |->
                    IF /\ <<u>> \in DOMAIN commit_dict
                       /\ <<u>> \in DOMAIN c.commits
                       /\ commit_dict[<<u>>] = c.commits[<<u>>]
                    THEN c.states[u] ELSE NoRes],
       !.commits = commit_dict]

\* update-user-branches: evict the cached list when the branch-name set differs.
update_user_cache_branches(c, branch_set) ==
    [c EXCEPT
       !.users = IF branch_set = c.branches THEN c.users ELSE {},
       !.has_users = IF branch_set = c.branches THEN c.has_users ELSE FALSE,
       !.branches = branch_set]

\* Client._update_cache, on the repository as it is at the end of pull
update_cache(c, h, rr) ==
    LET cache_dict == get_commits_for_users(RepoRefs(h, rr), remote)
        branch_set == DOMAIN cache_dict
    IN update_user_cache_branches(update_state_cache_commits(c, cache_dict), branch_set)

\* ------------------------------------------------------------------------
\* Jobs and results
\* ------------------------------------------------------------------------
Ops == {"commit_state", "get_state", "users", "pull", "push", "has_remote"}

\* How the caller passes `user` to get_state: by keyword, positionally, or not at all.
PassModes == {"kw", "pos", "none"}

\* dirty is the dirty flag of the State object a commit_state call is handed.
NoJob ==
    [t |-> "", op |-> "", user |-> "", mode |-> "none", no_cache |-> FALSE,
     state |-> NoState, dirty |-> FALSE, prio |-> NoPriority, on |-> ""]

MkJob(t, op, user, mode, no_cache, state, prio) ==
    [t |-> t, op |-> op, user |-> user, mode |-> mode, no_cache |-> no_cache,
     state |-> state, dirty |-> (op = "commit_state"), prio |-> prio, on |-> ""]

NoRun == [job |-> NoJob, staged |-> FALSE, snap |-> <<>>]

IdleThread == [pc |-> "idle", job |-> NoJob, res |-> NoRes, hit |-> FALSE]

\* A host thread outside update() that holds no State.
NoHost ==
    [stage |-> "none", master_state |-> NoState, master_dirty |-> FALSE,
     held |-> NoState, held_dirty |-> FALSE]

\* ------------------------------------------------------------------------
\* The Scheduler (specification 4.2): FIFO within priority, FAST > AVERAGE > SLOW
\* ------------------------------------------------------------------------
\* A wrapper that drops the priority keyword.
AlwaysSlow(job) == SLOW

\* The priority the wrapper enqueues a job with.
Priority(job) == IF job.prio # NoPriority THEN job.prio ELSE SLOW

\* The position in q of the job executor e takes next (0: none).  The worker
\* takes the first job of the highest priority present.
NextJob(q, e) ==
    LET mine == {i \in 1..Len(q) : q[i].on = e}
        top == {i \in mine : \A k \in mine : Priority(q[k]) <= Priority(q[i])}
    IN IF mine = {} THEN 0 ELSE CHOOSE i \in top : \A k \in top : i <= k

RemoveAt(q, i) == SubSeq(q, 1, i - 1) \o SubSeq(q, i + 1, Len(q))

\* ------------------------------------------------------------------------
\* The repository adapter
\* ------------------------------------------------------------------------
\* The tree of a commit: whose annotations it holds, and which.  Commit 0 is
\* no commit (an unborn branch): no annotations.
TreeOf(cs, c) == IF c = 0 THEN <<ROOT, 0>> ELSE <<cs[c].user, cs[c].tree>>

\* The "Root commit" of _setup_repo: .gitignore and binary_hash, no annotations.
RootCommit(hash) == [parent |-> 0, tree |-> 0, user |-> ROOT, src |-> 0, binary_hash |-> hash]

\* git checkout <branch>: refused when staged changes would be overwritten,
\* that is when the index differs from HEAD and the two branches' trees differ.
Checkout(target, cs, h, H, idx) ==
    IF target = H THEN [ok |-> TRUE, HEAD |-> H, index |-> idx]
    ELSE IF idx = TreeOf(cs, h[H])
         THEN [ok |-> TRUE, HEAD |-> target, index |-> TreeOf(cs, h[target])]
    ELSE IF TreeOf(cs, h[target]) = TreeOf(cs, h[H])
         THEN [ok |-> TRUE, HEAD |-> target, index |-> idx]
    ELSE [ok |-> FALSE, HEAD |-> H, index |-> idx]

\* A local branch with an upstream: one made by checkout --track.  The user
\* branch is made by create_head and has none.
Tracked(n) == n # master_user

\* ------------------------------------------------------------------------
\* The bodies of the atomic operations, as functions of the repository
\* ------------------------------------------------------------------------
\* State.parse of the tree of commit c (0: no reference of the user)
parse_state(user, cs, c) ==
    IF c = 0 THEN Raise("ValueError")
    ELSE IF cs[c].tree = 0
         THEN \* MetadataNotFoundError
              IF user = master_user THEN StateRes(StateOf(master_user, EmptyPayload))
              ELSE NoRes
    ELSE StateRes(StateOf(cs[c].user, cs[c].tree))

\* `if user is None: user = self.master_user`
user_or_master(user_arg) == IF user_arg = "" THEN master_user ELSE user_arg

\* Client.get_state
get_state(user_arg, cs, h, rr) ==
    parse_state(user_or_master(user_arg), cs, get_tree(user_or_master(user_arg), RepoRefs(h, rr)))

\* The users whose reference holds a metadata.toml
users_of(cs, best) ==
    UsersRes({cs[best[k].commit].user : k \in {x \in DOMAIN best : cs[best[x].commit].tree # 0}})

\* Client.users
users(cs, h, rr) == users_of(cs, get_best_refs(RepoRefs(h, rr), remote))

\* Client.has_remote
has_remote(origin, active) == BoolRes(IF origin THEN active ELSE FALSE)

\* What a checkout that went through leaves of r = [heads, HEAD, index].
checked_out(r, hs, co) ==
    IF co.ok THEN [heads |-> hs, HEAD |-> co.HEAD, index |-> co.index] ELSE r

\* One turn of the loop of _localize_remote_branches: checkout --track of the
\* remote's reference n, unless a local branch n was there before the loop.
\* A checkout that fails makes no branch and is skipped.
localize_branch(n, local_branches, r, cs, rr) ==
    IF n \in local_branches THEN r
    ELSE checked_out(r, [r.heads EXCEPT ![n] = rr[n]],
                     Checkout(n, cs, [r.heads EXCEPT ![n] = rr[n]], r.HEAD, r.index))

RECURSIVE LocalizeFrom(_, _, _, _, _)
LocalizeFrom(names, local_branches, r, cs, rr) ==
    IF names = <<>> THEN r
    ELSE LocalizeFrom(Tail(names), local_branches,
                      localize_branch(Head(names), local_branches, r, cs, rr), cs, rr)

\* Client._localize_remote_branches on r = [heads, HEAD, index];
\* local_branches is read once, before the loop.
localize_remote_branches(r, cs, rr, origin) ==
    IF ~origin THEN r
    ELSE LocalizeFrom(Branches(rr), SeqToSet(Branches(r.heads)), r, cs, rr)

\* After the checkout co of branch n in the loop of pull: the merge from the
\* upstream, when the branch tracks one and nothing is staged.
merge_branch(n, r, cs, rr, co) ==
    IF ~co.ok THEN [r EXCEPT !.raised = TRUE]
    ELSE IF Tracked(n) /\ rr[n] # 0 /\ co.index = TreeOf(cs, r.heads[n])
         THEN [heads |-> [r.heads EXCEPT ![n] = rr[n]], HEAD |-> co.HEAD,
               index |-> TreeOf(cs, rr[n]), raised |-> FALSE]
    ELSE [heads |-> r.heads, HEAD |-> co.HEAD, index |-> co.index, raised |-> FALSE]

\* The per-branch loop of pull: checkout, then merge from the upstream.  r is
\* [heads, HEAD, index, raised]; a checkout that fails raises out of the loop.
RECURSIVE MergeLoop(_, _, _, _)
MergeLoop(names, r, cs, rr) ==
    IF names = <<>> \/ r.raised THEN r
    ELSE MergeLoop(Tail(names),
                   merge_branch(Head(names), r, cs, rr,
                                Checkout(Head(names), cs, r.heads, r.HEAD, r.index)),
                   cs, rr)

\* The end of pull: what the per-branch loop lp left, with the references rr1.
pulled_result(lp, rr1, pulled) ==
    [heads |-> lp.heads, HEAD |-> lp.HEAD, index |-> lp.index, remoteRefs |-> rr1,
     pulled |-> pulled, raised |-> lp.raised]

\* pull after the checkout co of the root branch: `git fetch --all` and
\* `git pull --all` when there is a remote, then the per-branch loop.
pull_fetched(cs, hs, co, rr1, pulled) ==
    pulled_result(MergeLoop(Branches(hs),
                            [heads |-> hs, HEAD |-> co.HEAD, index |-> co.index,
                             raised |-> FALSE], cs, rr1),
                  rr1, pulled)

\* pull after _localize_remote_branches left loc
pull_localized(cs, loc, co, rr, rheads, origin, net) ==
    pull_fetched(cs, loc.heads, co,
                 IF co.ok /\ origin /\ net # "fetch" THEN rheads ELSE rr,
                 co.ok /\ origin /\ net = "ok")

pull_from(cs, loc, rr, rheads, origin, net) ==
    pull_localized(cs, loc, Checkout(ROOT, cs, loc.heads, loc.HEAD, loc.index),
                   rr, rheads, origin, net)

\* Client.pull on the repository [heads, HEAD, index, remoteRefs]; net is the
\* outcome of the network: "ok", or the git command that fails ("fetch",
\* "pull").  The result adds pulled (the remote step succeeded) and raised
\* (the per-branch loop raised).
pull(cs, h, H, idx, rr, rheads, origin, net) ==
    pull_from(cs, localize_remote_branches([heads |-> h, HEAD |-> H, index |-> idx],
                                           cs, rr, origin),
              rr, rheads, origin, net)

\* ------------------------------------------------------------------------
\* Attach / initialise: Client.__init__ and its helpers.  A repository on
\* disk is R = [commits, heads, HEAD, index, remoteRefs, has_origin, disk].
\* ------------------------------------------------------------------------
NoBranches == [n \in BranchNames |-> 0]

\* A binary hash is a text, one element per character.
NL == "\n"
Hashes == {<<"a">>, <<"b">>, <<"a", NL>>}

RECURSIVE StripLeft(_)
StripLeft(txt) == IF txt # <<>> /\ Head(txt) = NL THEN StripLeft(Tail(txt)) ELSE txt

RECURSIVE StripRight(_)
StripRight(txt) ==
    IF txt # <<>> /\ Last(txt) = NL THEN StripRight(SubSeq(txt, 1, Len(txt) - 1)) ELSE txt

\* str.strip("\n")
Strip(txt) == StripRight(StripLeft(txt))

ClientIds == {"c1", "c2"}

NoClient ==
    [status |-> "none", error |-> "", master_user |-> "", binary_hash |-> <<>>,
     connection_warnings |-> <<>>, repo_lock |-> "none"]

\* The arguments of Client(...): master_user, binary_hash, init_repo and
\* whether a remote_url is given.  repo_root is the one path of the model.
CtorArgs ==
    [master_user : Users \cup {ROOT}, binary_hash : Hashes, init_repo : BOOLEAN,
     remote_url : BOOLEAN]

AbsentRepo(cs) ==
    [commits |-> cs, heads |-> NoBranches, HEAD |-> DefaultBranch, index |-> TreeOf(cs, 0),
     remoteRefs |-> NoBranches, has_origin |-> FALSE, disk |-> "absent"]

\* Client._setup_repo: the root commit on the current branch, and the root branch.
setup_repo(R, hash) ==
    LET new == Len(R.commits) + 1
    IN [R EXCEPT !.commits = Append(R.commits, [RootCommit(hash) EXCEPT !.parent = R.heads[R.HEAD]]),
                 !.heads = [R.heads EXCEPT ![R.HEAD] = new, ![ROOT] = new],
                 !.index = <<ROOT, 0>>]

\* Client.clone: [ok, error, repo].  git clone refuses a destination that exists.
clone(R, rheads, no_head_check) ==
    LET cloned == [R EXCEPT !.disk = "repo", !.has_origin = TRUE, !.remoteRefs = rheads,
                            !.heads = [NoBranches EXCEPT ![DefaultBranch] = rheads[DefaultBranch]],
                            !.HEAD = DefaultBranch,
                            !.index = TreeOf(R.commits, rheads[DefaultBranch])]
    IN IF R.disk # "absent" THEN [ok |-> FALSE, error |-> "GitCommandError", repo |-> R]
       ELSE IF no_head_check THEN [ok |-> TRUE, error |-> "", repo |-> cloned]
       ELSE IF rheads[ROOT] = 0 THEN [ok |-> FALSE, error |-> "NotBinsyncRepo", repo |-> cloned]
       ELSE [ok |-> TRUE, error |-> "",
             repo |-> [cloned EXCEPT !.heads = [cloned.heads EXCEPT ![ROOT] = rheads[ROOT]]]]

\* Client._get_stored_hash: binary_hash in the tree of the first reference
\* whose name ends with binsync/__root__.
get_stored_hash(R) ==
    LET refs == RepoRefs(R.heads, R.remoteRefs)
        roots == SelectSeq(refs, LAMBDA r : EndsWith(r.name, BINSYNC_ROOT_BRANCH))
    IN Strip(R.commits[roots[1].commit].binary_hash)

Ok(R) == [ok |-> TRUE, error |-> "", repo |-> R]
Failed(e, R) == [ok |-> FALSE, error |-> e, repo |-> R]

\* remote_url given: after the clone cl, the init of the clone when asked for
init_cloned(args, cl) ==
    IF ~cl.ok \/ ~args.init_repo THEN cl
    ELSE IF cl.repo.heads[ROOT] # 0 THEN Failed("CannotReinit", cl.repo)
    ELSE Ok(setup_repo(cl.repo, args.binary_hash))

\* An opening that looks for the root branch before it looks at init_repo.
RootCheckFirst(args, opened) ==
    IF opened.heads[ROOT] = 0 THEN Failed("NotBinsyncRepo", opened)
    ELSE IF args.init_repo THEN Failed("AlreadyExists", opened)
    ELSE Ok(opened)

\* no remote_url, repo_root is a repository: after _localize_remote_branches
check_opened(args, opened) ==
    IF args.init_repo THEN Failed("AlreadyExists", opened)
    ELSE IF opened.heads[ROOT] = 0 THEN Failed("NotBinsyncRepo", opened)
    ELSE Ok(opened)

\* The repository R with the branches, HEAD and index of loc
with_branches(R, loc) == [R EXCEPT !.heads = loc.heads, !.HEAD = loc.HEAD, !.index = loc.index]

\* The repository part of _get_or_init_binsync_repo, before the hash check:
\* [ok, error, repo].
open_or_init(args, R, rheads) ==
    IF args.remote_url THEN init_cloned(args, clone(R, rheads, args.init_repo))
    ELSE IF R.disk = "repo"
         THEN check_opened(args,
                with_branches(R, localize_remote_branches(
                                    [heads |-> R.heads, HEAD |-> R.HEAD, index |-> R.index],
                                    R.commits, R.remoteRefs, R.has_origin)))
    ELSE IF args.init_repo THEN Ok(setup_repo([R EXCEPT !.disk = "repo"], args.binary_hash))
    ELSE Failed("FailedToConnect", R)

\* A Client that warns whatever hash the repository holds.
WarnAlways(stored, hash) == <<HASH_MISMATCH>>

\* The hash check of _get_or_init_binsync_repo.
hash_warnings(stored, hash) == IF stored # hash THEN <<HASH_MISMATCH>> ELSE <<>>

\* repo_lock.acquire(timeout=0): whether the lock is had.
acquire(lock_free) == lock_free

\* The end of _get_or_init_binsync_repo: the lock, with the warnings w
lock_repo(o, w, lock_free) ==
    IF acquire(lock_free)
    THEN [ok |-> TRUE, error |-> "", repo |-> o.repo,
          connection_warnings |-> w, repo_lock |-> "held"]
    ELSE [ok |-> FALSE, error |-> "LockContention", repo |-> o.repo,
          connection_warnings |-> w, repo_lock |-> "unlocked"]

\* _get_or_init_binsync_repo once the repository is had or not (o)
check_and_lock(args, o, lock_free) ==
    IF ~o.ok
    THEN [ok |-> FALSE, error |-> o.error, repo |-> o.repo,
          connection_warnings |-> <<>>, repo_lock |-> "none"]
    ELSE lock_repo(o, hash_warnings(get_stored_hash(o.repo), args.binary_hash), lock_free)

\* Client._get_or_init_binsync_repo: [ok, error, repo, connection_warnings, repo_lock]
get_or_init_binsync_repo(args, R, rheads, lock_free) ==
    check_and_lock(args, open_or_init(args, R, rheads), lock_free)

\* The local branches whose name ends with binsync/<user>
user_branches(user, R) ==
    SelectSeq(Branches(R.heads),
              LAMBDA n : EndsWith(BranchPath(n), <<BINSYNC_BRANCH_PREFIX, user>>))

\* `branch.checkout()` of _get_or_init_user_branch, with the heads hs
checkout_branch(R, hs, co) ==
    [ok |-> co.ok, repo |-> [R EXCEPT !.heads = hs, !.HEAD = co.HEAD, !.index = co.index]]

\* The branch found, or the one create_head makes of the root branch
found_or_created(user, R, found) ==
    IF found # <<>> THEN checkout_branch(R, R.heads, Checkout(found[1], R.commits, R.heads, R.HEAD, R.index))
    ELSE checkout_branch(R, [R.heads EXCEPT ![user] = R.heads[ROOT]],
                         Checkout(user, R.commits, [R.heads EXCEPT ![user] = R.heads[ROOT]],
                                  R.HEAD, R.index))

\* Client._get_or_init_user_branch: [ok, repo].  repo.branches holds local
\* heads only, so is_remote() is never true of the branch found.
get_or_init_user_branch(user, R) == found_or_created(user, R, user_branches(user, R))

\* The Client object __init__ leaves, with the warnings and the lock of g
client_of(args, g, status, error) ==
    [NoClient EXCEPT !.master_user = args.master_user, !.binary_hash = args.binary_hash,
                     !.connection_warnings = g.connection_warnings,
                     !.repo_lock = g.repo_lock, !.status = status, !.error = error]

\* __init__ after _get_or_init_binsync_repo (g) and _get_or_init_user_branch (b)
constructed(args, g, b) ==
    IF ~b.ok THEN [repo |-> b.repo, client |-> client_of(args, g, "failed", "GitCommandError")]
    ELSE [repo |-> b.repo, client |-> client_of(args, g, "started", "")]

\* __init__ after _get_or_init_binsync_repo (g)
init_branch(args, g) ==
    IF ~g.ok THEN [repo |-> g.repo, client |-> client_of(args, g, "failed", g.error)]
    ELSE constructed(args, g, get_or_init_user_branch(args.master_user, g.repo))

\* Client.__init__: [repo, client]
Constructor(args, R, rheads, lock_free) ==
    IF args.master_user = ROOT
    THEN [repo |-> R,
          client |-> [NoClient EXCEPT !.master_user = args.master_user,
                                      !.binary_hash = args.binary_hash,
                                      !.status = "failed", !.error = "BadUsername"]]
    ELSE init_branch(args, get_or_init_binsync_repo(args, R, rheads, lock_free))

\* ------------------------------------------------------------------------
\* Init: the Client c1 of master_user as its constructor leaves it: on a
\* clone of a remote that holds the root branch, or on a fresh local
\* repository (init_repo, no remote).
\* ------------------------------------------------------------------------
\* The workloads of the host threads: which operations each calls.
Workloads ==
    {[t \in Threads |-> IF t = "t1" THEN w[1] ELSE w[2]] : w \in
       { <<{"commit_state"}, {"commit_state"}>>,
         <<{"commit_state"}, {"pull"}>>,
         <<{"get_state", "users"}, {"pull"}>>,
         <<{"get_state"}, {"commit_state"}>>,
         <<{"push", "has_remote"}, {"commit_state"}>>,
         <<{"get_state", "users"}, {"get_state"}>>,
         <<{"has_remote"}, {"users"}>> }}

\* One host thread alone: the local operations, or the remote ones.
SoloWorkloads ==
    {[t \in Threads |-> IF t = "t1" THEN w ELSE {}] : w \in
       { {"commit_state", "get_state", "users"}, {"pull", "push", "has_remote"} }}

NoTimestamps ==
    [last_commit_ts |-> 0, last_pull_ts |-> 0, last_pull_attempt_ts |-> 0,
     last_push_ts |-> 0, last_push_attempt_ts |-> 0]

\* The constructor calls the model starts after: a local init, a clone with
\* the binary the repository was made for and, under the solo workloads, a
\* clone with another binary hash.
Starts ==
    {<<[master_user |-> master_user, binary_hash |-> <<"a">>, init_repo |-> TRUE,
        remote_url |-> FALSE], w>> : w \in Workloads}
    \cup {<<[master_user |-> master_user, binary_hash |-> <<"a">>, init_repo |-> FALSE,
             remote_url |-> TRUE], w>> : w \in Workloads}
    \cup {<<[master_user |-> master_user, binary_hash |-> h, init_repo |-> FALSE,
             remote_url |-> TRUE], w>> : h \in Hashes \ {<<"a">>}, w \in SoloWorkloads}

\* The remote a clone is made of: the root branch, made for the binary <<"a">>.
RemoteStore == <<RootCommit(<<"a">>)>>

InitWith(args, w, active) ==
    \E made \in {Constructor(args, AbsentRepo(IF args.remote_url THEN RemoteStore ELSE <<>>),
                              [NoBranches EXCEPT ![ROOT] = 1], TRUE)} :
       /\ commits = made.repo.commits
       /\ heads = made.repo.heads
       /\ HEAD = made.repo.HEAD
       /\ index = made.repo.index
       /\ remoteRefs = made.repo.remoteRefs
       /\ has_origin = made.repo.has_origin
       /\ disk = made.repo.disk
       /\ remoteHeads = IF args.remote_url THEN [NoBranches EXCEPT ![ROOT] = 1] ELSE NoBranches
       /\ clients = [c \in ClientIds |-> IF c = "c1" THEN made.client ELSE NoClient]
       /\ workload = w
       /\ cache = EmptyCache
       /\ queue = <<>>
       /\ running = [e \in Executors |-> NoRun]
       /\ thr = [t \in Threads |-> IdleThread]
       /\ ts = NoTimestamps
       /\ active_remote = active
       /\ host = [t \in Threads |-> NoHost]
       /\ ref_todo = <<>>
       /\ ref_done = <<>>
       /\ ref_best = <<>>

\* __init__ leaves active_remote set (l.128)
InitFrom(args, w) == InitWith(args, w, TRUE)

Init == \E st \in Starts : InitFrom(st[1], st[2])

\* ------------------------------------------------------------------------
\* atomic_git_action: the wrapper of every atomic operation
\* ------------------------------------------------------------------------
\* The user the cache is keyed by: the `user` keyword, or master_user.
CacheKeyUser(j) == IF j.mode = "kw" /\ j.user # "" THEN j.user ELSE master_user

\* Client._check_cache_
check_cache(c, j) ==
    IF j.op = "get_state" THEN cache_get_state(c, CacheKeyUser(j))
    ELSE IF j.op = "users" THEN (IF c.has_users THEN UsersRes(c.users) ELSE NoRes)
    ELSE NoRes

\* Client._set_cache
set_cache(c, j, res) ==
    IF j.op = "get_state" THEN cache_set_state(c, res, CacheKeyUser(j))
    ELSE IF j.op = "users" THEN cache_set_users(c, res.users)
    ELSE c

\* A wrapper that runs the body on the calling thread.
ExecutorInline(t) == t

\* A wrapper that hands the job to a scheduler whose worker was never started.
WorkerNotStarted(t) == ""

\* Where the wrapper has the body run: scheduler.schedule_and_wait_job
Executor(t) == Worker

\* A wrapper that never returns from the cache.
NeverHit(cache_item) == FALSE

\* `if cache_item is not None: return cache_item`
cache_hit(cache_item) == cache_item.kind # "None"

\* A commit that stays on whatever branch is checked out.
StayOnHead(cs, h, H, idx) == [ok |-> TRUE, HEAD |-> H, index |-> idx]

\* Client._checkout_to_master_user
checkout_to_master_user(cs, h, H, idx) == Checkout(master_user, cs, h, H, idx)

\* A commit_state that takes the State of any user.
AnyUser(state) == TRUE

\* `if self.master_user != state.user: raise ExternalUserCommitError`
authorised(state) == state.user = master_user

\* A commit_state that commits whatever the index holds.
AlwaysDirty(idx, tree) == FALSE

\* `if not self.repo.index.diff("HEAD"): return`
nothing_staged(idx, tree) == idx = tree

PendingOps(op) == Cardinality({t \in Threads : thr[t].pc # "idle" /\ thr[t].job.op = op})

\* The budget of the model for the calls that grow a counter.
WithinBudget(op) ==
    /\ op = "commit_state" => Len(commits) + PendingOps(op) < MaxCommits
    /\ op = "pull" => ts.last_pull_attempt_ts + PendingOps(op) < MaxPulls
    /\ op = "push" => ts.last_push_attempt_ts + PendingOps(op) < MaxPushes

\* A host thread calls an atomic operation: the cache check, then the enqueue.
Call(t, j) ==
    /\ thr[t].pc = "idle"
    /\ j.op \in workload[t]
    /\ WithinBudget(j.op)
    /\ \E cache_item \in {IF j.no_cache THEN NoRes ELSE check_cache(cache, j)} :
          IF cache_hit(cache_item)
          THEN /\ thr' = [thr EXCEPT ![t] = [pc |-> "done", job |-> j, res |-> cache_item,
                                              hit |-> TRUE]]
               /\ UNCHANGED queue
          ELSE /\ queue' = Append(queue, [j EXCEPT !.on = Executor(t)])
               /\ thr' = [thr EXCEPT ![t] = [pc |-> "waiting", job |-> j, res |-> NoRes,
                                              hit |-> FALSE]]
    /\ UNCHANGED <<commits, heads, HEAD, index, remoteRefs, remoteHeads, has_origin, cache,
                   running, workload, ts, active_remote, attachVars, refVars, host>>

\* The calls a host thread can make.  get_state() and get_state(user=master_user)
\* read the same key and the same branch; update() passes no_cache.
Calls(t) ==
    {MkJob(t, "commit_state", "", "none", FALSE, StateOf(master_user, p), NoPriority) :
        p \in 1..MaxPayload}
    \cup {MkJob(t, "commit_state", "", "none", FALSE, StateOf(other_user, EmptyPayload), NoPriority)}
    \cup {MkJob(t, "get_state", "", "none", FALSE, NoState, NoPriority)}
    \cup {MkJob(t, "get_state", master_user, "kw", nc, NoState, NoPriority) : nc \in BOOLEAN}
    \cup {MkJob(t, "get_state", other_user, m, FALSE, NoState, NoPriority) : m \in {"kw", "pos"}}
    \cup {MkJob(t, op, "", "none", FALSE, NoState, NoPriority) :
            op \in {"users", "pull", "push", "has_remote"}}
    \cup {MkJob(t, "users", "", "none", FALSE, NoState, AVERAGE),
          MkJob(t, "has_remote", "", "none", FALSE, NoState, FAST)}

\* An executor takes its next job and starts the body.  commit_state, when
\* authorised, checks the user branch out and dumps and stages the state.
BodyBegin(e) ==
    /\ running[e] = NoRun
    /\ NextJob(queue, e) # 0
    /\ \E j \in {queue[NextJob(queue, e)]},
          co \in {checkout_to_master_user(commits, heads, HEAD, index)} :
       LET dumps == j.op = "commit_state" /\ authorised(j.state) /\ co.ok
       IN /\ queue' = RemoveAt(queue, NextJob(queue, e))
          /\ HEAD' = IF dumps THEN co.HEAD ELSE HEAD
          /\ index' = IF dumps THEN <<j.state.user, j.state.payload>> ELSE index
          /\ running' = [running EXCEPT ![e] =
                           [job |-> j, staged |-> dumps,
                            snap |-> <<heads, HEAD', index', remoteRefs>>]]
    /\ UNCHANGED <<commits, heads, remoteRefs, remoteHeads, has_origin, cache, thr, workload, ts,
                   active_remote, attachVars, refVars, host>>

\* The job's completion signal: the caller is handed the result.
Complete(e, res) ==
    /\ running' = [running EXCEPT ![e] = NoRun]
    /\ thr' = [thr EXCEPT ![running[e].job.t] = [@ EXCEPT !.pc = "done", !.res = res]]

\* The completion of a commit_state that committed: `state._dirty = False`
\* on the State object the caller handed over, and None for the caller.
CompleteCommitted(e) ==
    /\ running' = [running EXCEPT ![e] = NoRun]
    /\ thr' = [thr EXCEPT ![running[e].job.t] =
                  [@ EXCEPT !.pc = "done", !.res = NoRes, !.job.dirty = FALSE]]

Running(e, op) == running[e] # NoRun /\ running[e].job.op = op

\* Client.commit_state, from the diff of the index against HEAD on.
\* commit_fails is the outcome of index.commit (an internal commit error).
commit_state(e, commit_fails) ==
    /\ Running(e, "commit_state")
    /\ LET j == running[e].job
           new == Len(commits) + 1
       IN IF ~authorised(j.state)
          THEN /\ Complete(e, Raise("ExternalUserCommitError"))
               /\ UNCHANGED <<commits, heads, ts>>
          ELSE IF ~running[e].staged
          THEN /\ Complete(e, Raise("GitCommandError"))
               /\ UNCHANGED <<commits, heads, ts>>
          ELSE IF nothing_staged(index, TreeOf(commits, heads[HEAD])) \/ commit_fails
          THEN /\ Complete(e, NoRes)
               /\ UNCHANGED <<commits, heads, ts>>
          ELSE /\ commits' = Append(commits, [parent |-> heads[HEAD], tree |-> index[2],
                                              user |-> index[1], src |-> j.state.payload,
                                              binary_hash |-> commits[heads[HEAD]].binary_hash])
               /\ heads' = [heads EXCEPT ![HEAD] = new, ![master_user] = new]
               /\ ts' = [ts EXCEPT !.last_commit_ts = new]
               /\ CompleteCommitted(e)
    /\ UNCHANGED <<HEAD, index, remoteRefs, remoteHeads, has_origin, cache, queue, workload,
                   active_remote, attachVars, refVars, host>>

EndGetState(e) ==
    /\ Running(e, "get_state")
    /\ Complete(e, get_state(running[e].job.user, commits, heads, remoteRefs))
    /\ UNCHANGED <<commits, heads, HEAD, index, remoteRefs, remoteHeads, has_origin, cache,
                   queue, workload, ts, active_remote, attachVars, refVars, host>>

EndUsers(e) ==
    /\ Running(e, "users")
    /\ Complete(e, users(commits, heads, remoteRefs))
    /\ UNCHANGED <<commits, heads, HEAD, index, remoteRefs, remoteHeads, has_origin, cache,
                   queue, workload, ts, active_remote, attachVars, refVars, host>>

EndHasRemote(e) ==
    /\ Running(e, "has_remote")
    /\ Complete(e, has_remote(has_origin, active_remote))
    /\ UNCHANGED <<commits, heads, HEAD, index, remoteRefs, remoteHeads, has_origin, cache,
                   queue, workload, ts, active_remote, attachVars, refVars, host>>

EndPull(e, net) ==
    /\ Running(e, "pull")
    /\ \E attempt \in {ts.last_pull_attempt_ts + 1},
          r \in {pull(commits, heads, HEAD, index, remoteRefs, remoteHeads, has_origin, net)} :
          /\ ts' = [ts EXCEPT !.last_pull_attempt_ts = attempt,
                              !.last_pull_ts = IF r.pulled THEN attempt ELSE @]
          /\ heads' = r.heads
          /\ HEAD' = r.HEAD
          /\ index' = r.index
          /\ remoteRefs' = r.remoteRefs
          /\ cache' = IF r.raised THEN cache ELSE update_cache(cache, r.heads, r.remoteRefs)
          /\ Complete(e, IF r.raised THEN Raise("GitCommandError") ELSE NoRes)
    /\ UNCHANGED <<commits, remoteHeads, has_origin, queue, workload,
                   active_remote, attachVars, refVars, host>>

\* Client.push; push_fails is the outcome of the network (GitCommandError).
EndPush(e, push_fails) ==
    /\ Running(e, "push")
    /\ \E attempt \in {ts.last_push_attempt_ts + 1},
          co \in {checkout_to_master_user(commits, heads, HEAD, index)} :
       LET pushed == co.ok /\ has_origin /\ ~push_fails
           sent == [n \in BranchNames |-> IF n \in {ROOT, master_user} THEN heads[n] ELSE remoteHeads[n]]
       IN /\ ts' = [ts EXCEPT !.last_push_attempt_ts = attempt,
                              !.last_push_ts = IF pushed THEN attempt ELSE @]
          /\ HEAD' = co.HEAD
          /\ index' = co.index
          /\ remoteHeads' = IF pushed THEN sent ELSE remoteHeads
          /\ remoteRefs' = IF pushed
                           THEN [n \in BranchNames |->
                                   IF n \in {ROOT, master_user} THEN heads[n] ELSE remoteRefs[n]]
                           ELSE remoteRefs
          /\ Complete(e, IF ~co.ok THEN Raise("GitCommandError")
                         ELSE IF ~has_origin THEN Raise("IndexError")
                         ELSE NoRes)
    /\ UNCHANGED <<commits, heads, has_origin, cache, queue, workload,
                   active_remote, attachVars, refVars, host>>

\* A wrapper that goes on to _set_cache whatever the job ended with.
AnyOutcome(res) == TRUE

\* schedule_and_wait_job came back with a value: the statements after it
\* (_set_cache, return ret_val) are reached.  A failure re-raised by it leaves
\* the wrapper there.
returned(res) == res.kind # "raise"

\* An update that pulls and pushes whatever has_remote answers.
IgnoreHasRemote(stage, res, dirty) ==
    IF stage = "none" \/ res.kind = "raise" \/ stage = "push" THEN "none"
    ELSE IF stage = "get_state" THEN (IF res.kind = "state" /\ dirty THEN "commit" ELSE "has_remote1")
    ELSE IF stage = "commit" THEN "has_remote1"
    ELSE IF stage = "has_remote1" THEN "pull"
    ELSE IF stage = "pull" THEN "has_remote2"
    ELSE "push"

\* Client.update: what it goes on to when the call of `stage` has returned
\* res; dirty is master_state.dirty.  A call that raises ends update.
update(stage, res, dirty) ==
    IF stage = "none" \/ res.kind = "raise" \/ stage = "push" THEN "none"
    ELSE IF stage = "get_state" THEN (IF res.kind = "state" /\ dirty THEN "commit" ELSE "has_remote1")
    ELSE IF stage = "commit" THEN "has_remote1"
    ELSE IF stage = "has_remote1" THEN (IF res.flag THEN "pull" ELSE "has_remote2")
    ELSE IF stage = "pull" THEN "has_remote2"
    ELSE (IF res.flag THEN "push" ELSE "none")

\* The call update makes at `stage`, with the master_state it got
update_call(t, stage, master_state) ==
    IF stage = "get_state"
    THEN MkJob(t, "get_state", master_user, "kw", TRUE, NoState, NoPriority)
    ELSE IF stage = "commit"
    THEN MkJob(t, "commit_state", "", "none", FALSE, master_state, NoPriority)
    ELSE IF stage \in {"has_remote1", "has_remote2"}
    THEN MkJob(t, "has_remote", "", "none", FALSE, NoState, NoPriority)
    ELSE MkJob(t, stage, "", "none", FALSE, NoState, NoPriority)

\* The dirty flag of the State a get_state of update returned: the State
\* module decides it, one way or the other.
ParsedDirty(stage) == IF stage = "get_state" THEN BOOLEAN ELSE {FALSE}

\* What the host thread holds when the call of job j has returned res: inside
\* update the master_state and the next stage; outside it, for a host that
\* also calls update, the State it handed to a commit_state that returned,
\* with its flag.
host_after(h, w, j, res, dirty) ==
    [stage |-> update(h.stage, res, dirty),
     master_state |-> IF h.stage = "get_state" /\ res.kind = "state" THEN res.state
                      ELSE IF update(h.stage, res, dirty) = "none" THEN NoState
                      ELSE h.master_state,
     master_dirty |-> IF h.stage = "get_state" /\ res.kind = "state" THEN dirty
                      ELSE IF update(h.stage, res, dirty) = "none" THEN FALSE
                      ELSE h.master_dirty,
     held |-> IF h.stage = "none" /\ "update" \in w /\ j.op = "commit_state"
              THEN (IF res.kind = "raise" THEN NoState ELSE j.state) ELSE h.held,
     held_dirty |-> IF h.stage = "none" /\ "update" \in w /\ j.op = "commit_state"
                    THEN (res.kind # "raise" /\ j.dirty) ELSE h.held_dirty]

\* The call returns to the host.  A caller released by the scheduler re-raises
\* the job's failure, or installs its value into the cache and returns it; a
\* cache hit is returned as it was found.
Return(t) ==
    /\ thr[t].pc = "done"
    /\ cache' = IF thr[t].hit \/ ~returned(thr[t].res) THEN cache
                ELSE set_cache(cache, thr[t].job, thr[t].res)
    /\ thr' = [thr EXCEPT ![t] = IdleThread]
    /\ \E dirty \in ParsedDirty(host[t].stage) :
          host' = [host EXCEPT ![t] = host_after(host[t], workload[t], thr[t].job,
                                                 thr[t].res, dirty)]
    /\ UNCHANGED <<commits, heads, HEAD, index, remoteRefs, remoteHeads, has_origin, queue,
                   running, workload, ts, active_remote, attachVars, refVars>>

\* The host calls update().
UpdateBegin(t) ==
    /\ thr[t].pc = "idle"
    /\ "update" \in workload[t]
    /\ host[t].stage = "none"
    /\ host' = [host EXCEPT ![t].stage = "get_state"]
    /\ UNCHANGED <<commits, heads, HEAD, index, remoteRefs, remoteHeads, has_origin, cache,
                   queue, running, thr, workload, ts, active_remote, attachVars, refVars>>

\* update() makes its next call.
UpdateCall(t) ==
    /\ host[t].stage # "none"
    /\ Call(t, update_call(t, host[t].stage, host[t].master_state))

\* The host commits a State itself, outside update().
HostCommit(t) ==
    /\ host[t].stage = "none"
    /\ \E j \in Calls(t) : j.op = "commit_state" /\ Call(t, j)

\* What the other analyst commits next: never what their branch holds already.
RemotePayload == (Len(commits) % MaxPayload) + 1

\* Another analyst's Client pushes a commit of its own user branch to the remote.
RemoteCommit ==
    /\ has_origin
    /\ Len(commits) + PendingOps("commit_state") < MaxCommits
    /\ commits' = Append(commits,
                    [parent |-> IF remoteHeads[other_user] = 0 THEN remoteHeads[ROOT]
                                ELSE remoteHeads[other_user],
                     tree |-> RemotePayload, user |-> other_user, src |-> RemotePayload,
                     binary_hash |-> commits[remoteHeads[ROOT]].binary_hash])
    /\ remoteHeads' = [remoteHeads EXCEPT ![other_user] = Len(commits) + 1]
    /\ UNCHANGED <<heads, HEAD, index, remoteRefs, has_origin, cache, queue, running, thr,
                   workload, ts, active_remote, attachVars, refVars, host>>

\* Another analyst attaches and pushes: their user branch, forked from the
\* root branch and without a commit of its own yet, appears on the remote.
RemoteJoin ==
    /\ has_origin
    /\ remoteHeads[other_user] = 0
    /\ remoteHeads' = [remoteHeads EXCEPT ![other_user] = remoteHeads[ROOT]]
    /\ UNCHANGED <<commits, heads, HEAD, index, remoteRefs, has_origin, cache, queue, running,
                   thr, workload, ts, active_remote, attachVars, refVars, host>>

\* ------------------------------------------------------------------------
\* SpecAttach: Clients constructed on one repo_root, from nothing on.
\* ------------------------------------------------------------------------
CurrentRepo ==
    [commits |-> commits, heads |-> heads, HEAD |-> HEAD, index |-> index,
     remoteRefs |-> remoteRefs, has_origin |-> has_origin, disk |-> disk]

LockFree == \A c \in ClientIds : clients[c].repo_lock # "held"

\* What no Client has touched yet: no host thread, no job, an empty cache.
Quiet ==
    /\ workload = [t \in Threads |-> {}]
    /\ cache = EmptyCache
    /\ queue = <<>>
    /\ running = [e \in Executors |-> NoRun]
    /\ thr = [t \in Threads |-> IdleThread]
    /\ ts = NoTimestamps
    /\ active_remote = TRUE
    /\ host = [t \in Threads |-> NoHost]

\* What the remote holds: no branch at all, the root branch, or (for the
\* binary <<"a">>) the root branch with the branch of master_user and a copy
\* of it under archive/.  [commits, remoteHeads] for the binary hash h.
Remotes(h) ==
    {[commits |-> <<RootCommit(h)>>, remoteHeads |-> [NoBranches EXCEPT ![ROOT] = r]] :
        r \in {0, 1}}
    \cup {[commits |-> <<RootCommit(h),
                          [parent |-> 1, tree |-> EmptyPayload, user |-> master_user,
                           src |-> EmptyPayload, binary_hash |-> h]>>,
            remoteHeads |-> [NoBranches EXCEPT ![ROOT] = 1, ![master_user] = 2,
                                               ![archived] = 2]] : x \in {h} \cap {<<"a">>}}

\* repo_root is absent, or a repository that is not a BinSync one.
InitAttach ==
    /\ \E h \in Hashes : \E rem \in Remotes(h) :
          /\ commits = rem.commits
          /\ remoteHeads = rem.remoteHeads
    /\ disk \in {"absent", "repo"}
    /\ heads = IF disk = "repo" THEN [NoBranches EXCEPT ![DefaultBranch] = 1] ELSE NoBranches
    /\ HEAD = DefaultBranch
    /\ index = TreeOf(commits, heads[HEAD])
    /\ remoteRefs = NoBranches
    /\ has_origin = FALSE
    /\ clients = [c \in ClientIds |-> NoClient]
    /\ Quiet
    /\ ref_todo = <<>>
    /\ ref_done = <<>>
    /\ ref_best = <<>>

\* Client(master_user, repo_root, binary_hash, init_repo=..., remote_url=...)
Construct(c, args) ==
    /\ clients[c].status = "none"
    /\ \E made \in {Constructor(args, CurrentRepo, remoteHeads, LockFree)} :
          /\ commits' = made.repo.commits
          /\ heads' = made.repo.heads
          /\ HEAD' = made.repo.HEAD
          /\ index' = made.repo.index
          /\ remoteRefs' = made.repo.remoteRefs
          /\ has_origin' = made.repo.has_origin
          /\ disk' = made.repo.disk
          /\ clients' = [clients EXCEPT ![c] = made.client]
    /\ UNCHANGED <<remoteHeads, cache, queue, running, thr, workload, ts, active_remote, refVars, host>>

\* Client.__del__: the object is collected, started or not
Finalize(c) ==
    /\ clients[c].status # "none"
    /\ clients' = [clients EXCEPT ![c] = NoClient]
    /\ UNCHANGED <<commits, heads, HEAD, index, remoteRefs, remoteHeads, has_origin, cache,
                   queue, running, thr, workload, ts, active_remote, disk, refVars, host>>

\* Client.close: the repository handle is closed and dropped; the object,
\* and with it repo_lock, stays until it is collected.
Close(c) ==
    /\ clients[c].status = "started"
    /\ clients' = [clients EXCEPT ![c].status = "closed"]
    /\ UNCHANGED <<commits, heads, HEAD, index, remoteRefs, remoteHeads, has_origin, cache,
                   queue, running, thr, workload, ts, active_remote, disk, refVars, host>>

NextAttach ==
    \/ \E c \in ClientIds : \E args \in CtorArgs : Construct(c, args)
    \/ \E c \in ClientIds : Close(c)
    \/ \E c \in ClientIds : Finalize(c)

SpecAttach == InitAttach /\ [][NextAttach]_vars

\* ------------------------------------------------------------------------
\* SpecRefs: _get_best_refs over the references of a repository, in every
\* order repo.refs can enumerate them.
\* ------------------------------------------------------------------------
MaxRefs == 3        \* references in the repository

RefPool ==
    { LocalRef(master_user, 1), RemoteRef(remote, master_user, 2),
      RemoteRef("upstream", master_user, 3), RemoteRef(remote, other_user, 4),
      LocalRef(DefaultBranch, 5) }

RECURSIVE Arrangements(_, _)
\* the sequences of n distinct elements of S
Arrangements(S, n) ==
    IF n = 0 THEN {<<>>}
    ELSE UNION {{<<x>> \o a : a \in Arrangements(S \ {x}, n - 1)} : x \in S}

InitRefs ==
    /\ \E n \in 1..MaxRefs : ref_todo \in Arrangements(RefPool, n)
    /\ ref_done = <<>>
    /\ ref_best = <<>>
    /\ commits = <<RootCommit(<<"a">>)>>
    /\ disk = "repo"
    /\ heads = NoBranches
    /\ HEAD = DefaultBranch
    /\ index = TreeOf(commits, 0)
    /\ remoteRefs = NoBranches
    /\ remoteHeads = NoBranches
    /\ has_origin = TRUE
    /\ clients = [c \in ClientIds |-> NoClient]
    /\ Quiet

\* One turn of the loop of _get_best_refs
BestRefsIter ==
    /\ ref_todo # <<>>
    /\ ref_best' = BestRefsStep(ref_best, Head(ref_todo), remote)
    /\ ref_done' = Append(ref_done, Head(ref_todo))
    /\ ref_todo' = Tail(ref_todo)
    /\ UNCHANGED <<commits, heads, HEAD, index, remoteRefs, remoteHeads, has_origin, cache,
                   queue, running, thr, workload, ts, active_remote, attachVars, host>>

NextRefs == BestRefsIter

SpecRefs == InitRefs /\ [][NextRefs]_vars

Next ==
    \/ \E t \in Threads : \E j \in Calls(t) : Call(t, j)
    \/ \E e \in Executors : BodyBegin(e)
    \/ \E e \in Executors : \E commit_fails \in BOOLEAN : commit_state(e, commit_fails)
    \/ \E e \in Executors : EndGetState(e)
    \/ \E e \in Executors : EndUsers(e)
    \/ \E e \in Executors : EndHasRemote(e)
    \/ \E e \in Executors : \E net \in {"ok", "fetch", "pull"} : EndPull(e, net)
    \/ \E e \in Executors : \E push_fails \in BOOLEAN : EndPush(e, push_fails)
    \/ \E t \in Threads : Return(t)
    \/ RemoteCommit
    \/ RemoteJoin

Spec == Init /\ [][Next]_vars

\* ------------------------------------------------------------------------
\* SpecUpdate: a host thread that commits States and calls update(), on a
\* local repository or on a clone, with active_remote as the constructor
\* left it or cleared by the host.
\* ------------------------------------------------------------------------
UpdateWorkloads ==
    {[t \in Threads |-> IF t = "t1"
                        THEN {"update", "get_state", "commit_state", "has_remote", "pull", "push"}
                        ELSE {}]}

InitUpdate ==
    \E w \in UpdateWorkloads : \E url, active \in BOOLEAN :
        InitWith([master_user |-> master_user, binary_hash |-> <<"a">>, init_repo |-> ~url,
                  remote_url |-> url], w, active)

NextUpdate ==
    \/ \E t \in Threads : UpdateBegin(t)
    \/ \E t \in Threads : UpdateCall(t)
    \/ \E t \in Threads : HostCommit(t)
    \/ \E e \in Executors : BodyBegin(e)
    \/ \E e \in Executors : \E commit_fails \in BOOLEAN : commit_state(e, commit_fails)
    \/ \E e \in Executors : EndGetState(e)
    \/ \E e \in Executors : EndHasRemote(e)
    \/ \E e \in Executors : \E net \in {"ok", "fetch", "pull"} : EndPull(e, net)
    \/ \E e \in Executors : \E push_fails \in BOOLEAN : EndPush(e, push_fails)
    \/ \E t \in Threads : Return(t)

SpecUpdate == InitUpdate /\ [][NextUpdate]_vars

\* ------------------------------------------------------------------------
\* SpecLive: two host threads that keep calling the read operations, one
\* with and one without a priority keyword, under a fair worker: a body that
\* has started ends, the worker takes a job when there is one to take, and a
\* released caller returns.
\* ------------------------------------------------------------------------
LiveWorkloads ==
    {[t \in Threads |-> IF t = "t1" THEN {"users", "get_state"} ELSE {"has_remote"}]}

InitLive ==
    \E w \in LiveWorkloads :
        InitFrom([master_user |-> master_user, binary_hash |-> <<"a">>, init_repo |-> TRUE,
                  remote_url |-> FALSE], w)

NextLive ==
    \/ \E t \in Threads : \E j \in Calls(t) : Call(t, j)
    \/ \E e \in Executors : BodyBegin(e)
    \/ \E e \in Executors : EndGetState(e)
    \/ \E e \in Executors : EndUsers(e)
    \/ \E e \in Executors : EndHasRemote(e)
    \/ \E t \in Threads : Return(t)

SpecLive ==
    /\ InitLive
    /\ [][NextLive]_vars
    /\ \A e \in Executors : WF_vars(BodyBegin(e))
    /\ \A e \in Executors : WF_vars(EndGetState(e) \/ EndUsers(e) \/ EndHasRemote(e))
    /\ \A t \in Threads : WF_vars(Return(t))

\* ------------------------------------------------------------------------
\* Properties
\* ------------------------------------------------------------------------
Busy == {e \in Executors : running[e] # NoRun}

\* C1: the bodies of atomic operations run one at a time, on the worker, and
\* nothing but the running body changes the repository between its start and
\* its end: the repository a body works on is the one it left itself.
AtomicBodiesSerialized ==
    /\ Cardinality(Busy) <= 1
    /\ \A e \in Busy : e = Worker /\ running[e].snap = <<heads, HEAD, index, remoteRefs>>

\* Two host threads have called; one body runs while the other job waits.
OneRunsOneWaits ==
    /\ running[Worker] # NoRun
    /\ queue # <<>>
    /\ \A t \in Threads : thr[t].pc = "waiting"

\* C2: whenever the user branch moves, it moves to one new commit whose parent
\* is the previous head and whose tree is the serialization of the one State
\* the committing call was given.
UserBranchLinear ==
    [][heads'[master_user] # heads[master_user] =>
         LET c == heads'[master_user]
         IN /\ c = Len(commits) + 1
            /\ Len(commits') = c
            /\ commits'[c].parent = heads[master_user]
            /\ commits'[c].user = master_user
            /\ commits'[c].tree = commits'[c].src]_vars

\* Both host threads committed, and the user branch holds two commits in a row.
TwoCommitsInARow ==
    /\ \A t \in Threads : workload[t] = {"commit_state"}
    /\ heads[master_user] = 3
    /\ commits[3].parent = 2
    /\ commits[2].parent = 1
    /\ commits[2].user = master_user

ExternalCommit(r) == r # NoRun /\ r.job.op = "commit_state" /\ r.job.state.user # master_user

\* C3: a commit_state of a State of another user changes nothing of the
\* repository - no commit, no branch, not the checked-out branch, not the
\* index, no timestamp - and ends in ExternalUserCommitError.
ExternalCommitRefused ==
    [][\A e \in Executors :
         /\ (running[e] = NoRun /\ ExternalCommit(running'[e])) =>
                UNCHANGED <<commits, heads, HEAD, index, remoteRefs, ts>>
         /\ (ExternalCommit(running[e]) /\ running'[e] = NoRun) =>
                /\ UNCHANGED <<commits, heads, HEAD, index, remoteRefs, ts>>
                /\ thr'[running[e].job.t].res = Raise("ExternalUserCommitError")]_vars

\* A caller holds the ExternalUserCommitError of its commit_state.
ExternalCommitRaised ==
    \E t \in Threads :
        /\ thr[t].pc = "done"
        /\ thr[t].job.op = "commit_state"
        /\ thr[t].job.state.user = other_user
        /\ thr[t].res = Raise("ExternalUserCommitError")

\* C4: a commit_state whose State serializes to the tree at the head of the
\* user branch makes no commit, moves no branch and leaves last_commit_ts.
CommitIdempotent ==
    [][\A e \in Executors :
         (/\ Running(e, "commit_state")
          /\ running[e].staged
          /\ running'[e] = NoRun
          /\ <<running[e].job.state.user, running[e].job.state.payload>>
                = TreeOf(commits, heads[master_user])) =>
            UNCHANGED <<commits, heads, ts>>]_vars

\* The same State is committed twice in a row: the first call made commit 2,
\* the body of the second has staged the same tree and finds nothing to commit.
SameStateTwice ==
    /\ Len(commits) = 2
    /\ heads[master_user] = 2
    /\ ts.last_commit_ts = 2
    /\ Running(Worker, "commit_state")
    /\ running[Worker].staged
    /\ index = TreeOf(commits, 2)
    /\ \E t \in Threads :
          /\ t # running[Worker].job.t
          /\ thr[t].pc = "done"
          /\ thr[t].job.state = running[Worker].job.state

LastPullSucceeded == ts.last_pull_ts # 0 /\ ts.last_pull_ts = ts.last_pull_attempt_ts

\* What get_state(user=u) is answered from the cache, NoRes when it is not.
Cached(u) == cache_get_state(cache, u)

\* C5: after a pull that succeeded, what the cache answers for a user whose
\* branch the pull can move is the State parsed from that branch's new head,
\* also when a get_state raced with the pull.
CacheCoherentAfterPull ==
    (LastPullSucceeded /\ Cached(other_user).kind # "None") =>
        Cached(other_user) = get_state(other_user, commits, heads, remoteRefs)

\* C6: once commit_state has returned, what the cache answers for master_user
\* is the State at the head of the user branch, whatever was cached before.
CommitVisibleToGetState ==
    (/\ \A t \in Threads : thr[t].pc = "idle" \/ thr[t].job.op # "commit_state"
     /\ Cached(master_user).kind # "None"
     /\ Cached(master_user).state.user = master_user) =>
        Cached(master_user) = get_state(master_user, commits, heads, remoteRefs)

\* C7: a call the cache can answer is answered by the calling thread with the
\* cached value: nothing is enqueued and no body starts.
CacheHitBypassesScheduler ==
    [][\A t \in Threads :
         (/\ thr[t].pc = "idle"
          /\ thr'[t].pc # "idle"
          /\ ~thr'[t].job.no_cache
          /\ check_cache(cache, thr'[t].job).kind # "None") =>
            /\ queue' = queue
            /\ running' = running
            /\ thr'[t].pc = "done"
            /\ thr'[t].res = check_cache(cache, thr'[t].job)]_vars

\* A call is answered from the cache while another thread's job sits in the
\* queue and the worker has taken nothing.
HitWhileJobWaits ==
    \E t \in Threads :
        /\ thr[t].pc = "done"
        /\ thr[t].hit
        /\ queue # <<>>
        /\ running[Worker] = NoRun

\* C10: a binary_hash that differs from the stored one does not fail the
\* construction: connection_warnings is [HASH_MISMATCH] exactly then and
\* empty otherwise, and every operation can be called all the same.
HashMismatchNotFatal ==
    LET c == clients["c1"]
    IN /\ c.status = "started"
       /\ c.connection_warnings =
             IF get_stored_hash(CurrentRepo) # c.binary_hash THEN <<HASH_MISMATCH>> ELSE <<>>
       /\ c.connection_warnings # <<>> =>
             \A t \in Threads : \A j \in Calls(t) :
                 (thr[t].pc = "idle" /\ j.op \in workload[t] /\ WithinBudget(j.op)) =>
                     ENABLED Call(t, j)

\* A Client with the warning has committed, pulled and pushed.
MismatchedClientWorked ==
    /\ clients["c1"].connection_warnings = <<HASH_MISMATCH>>
    /\ clients["c1"].binary_hash = <<"b">>
    /\ ts.last_pull_ts # 0
    /\ ts.last_push_ts # 0

\* C8: while a Client holds repo_root, the construction of a second Client
\* for it (with a username that is allowed) fails, and fails with the
\* lock-contention error, whatever init_repo and remote_url are.
SecondClientLockContention ==
    [][\A c, d \in ClientIds :
         (/\ c # d
          /\ clients[d].status = "started"
          /\ clients[c].status = "none"
          /\ clients'[c].status # "none"
          /\ clients'[c].master_user \in Users) =>
            /\ clients'[c].status = "failed"
            /\ clients'[c].error = "LockContention"]_vars

\* The references _get_best_refs has seen for the key k.
SeenFor(k) ==
    {i \in DOMAIN ref_done :
        HasPrefixSegment(ref_done[i].name) /\ LastSegment(ref_done[i].name) = k}

\* C9: when _get_best_refs has seen every reference, the one it kept for a
\* username is a local branch if there is one, whatever the order of
\* enumeration, and else the one of the configured remote if there is one.
BestRefPrefersLocal ==
    ref_todo = <<>> =>
        \A k \in DOMAIN ref_best :
            LET seen == {ref_done[i] : i \in SeenFor(k)}
            IN IF \E r \in seen : ~is_remote(r)
               THEN ~is_remote(ref_best[k])
               ELSE (\E r \in seen : r.remote_name = remote) =>
                        ref_best[k].remote_name = remote

\* C11: once close() has returned on a Client, the lock of repo_root is free
\* and a new Client can be constructed against it.
CloseReleasesLock ==
    \A c \in ClientIds : clients[c].status = "closed" => clients[c].repo_lock # "held"

\* The caller t comes back from the scheduler with what its job ended with.
Released(t) == thr[t].pc = "done" /\ ~thr[t].hit /\ thr'[t].pc = "idle"

\* C12: a failed operation leaves the cache as it was, and a value gets into
\* the state cache or the users cache only as the value of a get_state or
\* users job that completed without raising.
CacheNeverPoisoned ==
    [][/\ \A t \in Threads :
            (Released(t) /\ thr[t].res.kind = "raise") => cache' = cache
       /\ \A u \in Users :
            (cache'.states[u] # cache.states[u] /\ cache'.states[u] # NoRes) =>
                \E t \in Threads :
                    /\ Released(t)
                    /\ thr[t].job.op = "get_state"
                    /\ thr[t].res.kind = "state"
                    /\ cache'.states[u] = thr[t].res
       /\ (cache'.has_users /\ (~cache.has_users \/ cache'.users # cache.users)) =>
                \E t \in Threads :
                    /\ Released(t)
                    /\ thr[t].job.op = "users"
                    /\ thr[t].res.kind = "users"
                    /\ cache'.users = thr[t].res.users]_vars

\* get_state for a user with no branch has raised, while the cache holds the
\* State of master_user read before.
RaisedWithCacheFilled ==
    \E t \in Threads :
        /\ thr[t].pc = "done"
        /\ thr[t].job.op = "get_state"
        /\ thr[t].res = Raise("ValueError")
        /\ cache.states[master_user].kind = "state"

\* C13: get_state on a tree without metadata gives the empty State of
\* master_user when the user asked for (given or defaulted) is master_user,
\* and propagates the failure to the caller when it is another user.
MetadataNotFoundHandled ==
    [][\A e \in Executors :
         (Running(e, "get_state") /\ running'[e] = NoRun) =>
            LET user == user_or_master(running[e].job.user)
                c == get_tree(user, RepoRefs(heads, remoteRefs))
                res == thr'[running[e].job.t].res
            IN (c # 0 /\ commits[c].tree = 0) =>
                  IF user = master_user
                  THEN res = StateRes(StateOf(master_user, EmptyPayload))
                  ELSE res.kind = "raise"]_vars

\* The body of a pull or push that executor e runs ends in this step.
EndsRemoteOp(e) ==
    /\ running[e] # NoRun
    /\ running[e].job.op \in {"pull", "push"}
    /\ running'[e] = NoRun

\* C14: a pull or push never raises: the attempt timestamp is set, and the
\* success timestamp is set only when the remote step went through and is
\* left as it was otherwise.
RemoteFailuresSwallowed ==
    [][\A e \in Executors :
         EndsRemoteOp(e) =>
            /\ thr'[running[e].job.t].res.kind # "raise"
            /\ running[e].job.op = "pull" =>
                  /\ ts'.last_pull_attempt_ts = ts.last_pull_attempt_ts + 1
                  /\ ts'.last_pull_ts # ts.last_pull_ts =>
                        (has_origin /\ remoteRefs' = remoteHeads)
            /\ running[e].job.op = "push" =>
                  /\ ts'.last_push_attempt_ts = ts.last_push_attempt_ts + 1
                  /\ ts'.last_push_ts # ts.last_push_ts =>
                        (has_origin /\ remoteHeads'[master_user] = heads[master_user])]_vars

\* The priority class the caller asked for: the priority keyword, else SLOW.
Class(job) == IF job.prio = NoPriority THEN SLOW ELSE job.prio

\* C15: the job the worker takes is of the highest class pending and, within
\* its class, the one submitted first; a job that runs is not replaced by
\* anything submitted later.
SchedulerOrdering ==
    [][\A e \in Executors :
         /\ (running[e] = NoRun /\ running'[e] # NoRun) =>
               \E i \in DOMAIN queue :
                  /\ running'[e].job = queue[i]
                  /\ queue' = RemoveAt(queue, i)
                  /\ \A k \in DOMAIN queue \ {i} :
                        \/ Class(queue[k]) < Class(queue[i])
                        \/ Class(queue[k]) = Class(queue[i]) /\ i < k
         /\ (running[e] # NoRun /\ running'[e] # NoRun) => running'[e] = running[e]]_vars

\* A FAST job is submitted behind an AVERAGE one the worker has not taken yet.
FastBehindAverage ==
    /\ Len(queue) = 2
    /\ Class(queue[1]) = AVERAGE
    /\ Class(queue[2]) = FAST
    /\ running[Worker] = NoRun

Waiting(t) == thr[t].pc = "waiting"

Done(t) == thr[t].pc = "done"

Overtaken(t) == \E i \in DOMAIN queue : Class(queue[i]) > Class(thr[t].job)

FailsWith(c, e) == clients'[c].status = "failed" /\ clients'[c].error = e

AttachOutcome(c, args) ==
    IF disk = "repo"
    THEN /\ args.init_repo => FailsWith(c, "AlreadyExists")
         /\ (~args.init_repo /\ heads[ROOT] = 0 /\ remoteRefs[ROOT] = 0) =>
                FailsWith(c, "NotBinsyncRepo")
    ELSE IF ~args.init_repo THEN FailsWith(c, "FailedToConnect")
    ELSE /\ disk' = "repo"
         /\ commits' = Append(commits, RootCommit(args.binary_hash))
         /\ heads'[ROOT] = Len(commits')
         /\ clients'[c].status = "started"

\* C17: a Client constructed without remote_url fails on a repository when
\* init_repo is set (it already exists), fails on a repository without the
\* root branch (not a BinSync repo), fails on no repository without init_repo,
\* and on no repository with init_repo makes one whose root branch is at a new
\* root commit holding the hash it was given; a failure leaves no started
\* Client.
LocalAttachResolution ==
    [][\A c \in ClientIds : \A args \in CtorArgs :
          (/\ ~args.remote_url
           /\ args.master_user # ROOT
           /\ clients[c].status = "none"
           /\ clients'[c].master_user = args.master_user
           /\ clients'[c].binary_hash = args.binary_hash
           /\ Construct(c, args)) =>
              /\ AttachOutcome(c, args)
              /\ clients'[c].error # "" => clients'[c].status = "failed"]_vars

\* One Client made the repository from nothing for the hash it was given and
\* another was then refused the init of the same path.
InitThenRefused ==
    \E c, d \in ClientIds :
        /\ clients[c].status = "started"
        /\ ~has_origin
        /\ heads[ROOT] # 0
        /\ commits[heads[ROOT]] = RootCommit(clients[c].binary_hash)
        /\ clients[d].status = "failed"
        /\ clients[d].error = "AlreadyExists"

\* The construction of c went through.
Constructed(c) == clients[c].status = "none" /\ clients'[c].status = "started"

\* C18: after a construction that went through, the local branch
\* binsync/<master_user> exists and is the one checked out: it is where it was
\* when it was there before, it exists when only the remote-tracking reference
\* of that name did, and it is at the commit of the root branch when neither
\* did.
UserBranchCheckedOut ==
    [][\A c \in ClientIds : Constructed(c) =>
          \E m \in {clients'[c].master_user} :
              /\ heads'[m] # 0
              /\ HEAD' = m
              /\ heads[m] # 0 => heads'[m] = heads[m]
              /\ (heads[m] = 0 /\ remoteRefs'[m] = 0) => heads'[m] = heads'[ROOT]]_vars

\* A step of the body of commit_state on e: its start (the checkout and the
\* dump) or its end (the commit).
CommitStateStep(e) ==
    \/ running[e] = NoRun /\ running'[e] # NoRun /\ running'[e].job.op = "commit_state"
    \/ Running(e, "commit_state") /\ running'[e] = NoRun

\* C19: commit_state moves the head of binsync/<master_user> only: the root
\* branch, every other local branch and every remote-tracking reference stay
\* where they were, whichever branch was checked out when it was called.
OnlyOwnerBranchWritten ==
    [][\A e \in Executors : CommitStateStep(e) =>
          /\ \A n \in BranchNames \ {master_user} : heads'[n] = heads[n]
          /\ remoteRefs' = remoteRefs
          /\ remoteHeads' = remoteHeads]_vars

\* A commit was made after a pull had left HEAD on the last branch of its
\* loop: the newest commit is the head of the user branch, which is checked
\* out again, and the branch the pull ended on is where the pull left it.
CommitAfterPullMovedHead ==
    /\ \E t \in Threads : workload[t] = {"pull"} /\ thr[t].pc = "done" /\ thr[t].res = NoRes
    /\ \E t \in Threads :
          /\ thr[t].pc = "done"
          /\ thr[t].job.op = "commit_state"
          /\ commits[Len(commits)].src = thr[t].job.state.payload
    /\ ts.last_pull_attempt_ts = 1
    /\ ts.last_commit_ts = Len(commits)
    /\ heads[master_user] = Len(commits)
    /\ HEAD = master_user
    /\ heads[DefaultBranch] # 0

\* The body of a pull that executor e runs ends in this step.
EndsPull(e) == Running(e, "pull") /\ running'[e] = NoRun

\* The last of the local branches the loop of pull goes through.
LastBranch(h) == Branches(h)[Len(Branches(h))]

\* C20: a branch whose checkout or merge fails does not end the loop of pull:
\* the loop goes on to the last local branch, which is the one checked out
\* afterwards unless git refuses just that checkout, and the cache is swept
\* against the repository the pull leaves.
PullLoopRunsThrough ==
    [][\A e \in Executors : EndsPull(e) =>
          /\ cache' = update_cache(cache, heads', remoteRefs')
          /\ Checkout(LastBranch(heads'), commits', heads', HEAD', index').ok =>
                HEAD' = LastBranch(heads')]_vars

\* The names a reference dictionary can hold the root branch under: its full
\* name binsync/__root__, or the last segment _get_best_refs keys it by.
RootKeys == {BINSYNC_ROOT_BRANCH, LastSegment(BINSYNC_ROOT_BRANCH)}

\* C21: what the sweep at the end of pull hands to the caches - the
\* (branch -> head) map of the state cache and the branch-name set of the users
\* cache - holds no entry for the root branch binsync/__root__.
SweepLeavesOutRoot ==
    /\ RootKeys \cap DOMAIN cache.commits = {}
    /\ RootKeys \cap cache.branches = {}

\* The user a get_state call asks for: the one passed, however it is passed,
\* and master_user when none is.
RequestedUser(j) == IF j.user = "" THEN master_user ELSE j.user

\* C22: a get_state call answered from the cache is answered with a State of
\* the user it asked for, whether the user was passed positionally, by keyword
\* or not at all.
CacheHitOfRequestedUser ==
    \A t \in Threads :
        (/\ thr[t].pc = "done"
         /\ thr[t].hit
         /\ thr[t].job.op = "get_state"
         /\ thr[t].res.kind = "state") =>
            thr[t].res.state.user = RequestedUser(thr[t].job)

\* Thread t, inside update(), makes a call in this step.
CallsInUpdate(t) == host[t].stage # "none" /\ thr[t].pc = "idle" /\ thr'[t].pc # "idle"

\* A call that thread t made inside update() returns in this step.
ReturnsInUpdate(t) == host[t].stage # "none" /\ thr[t].pc = "done" /\ thr'[t].pc = "idle"

\* The place of a step of update in the order commit, pull, push.
Rank(stage) ==
    IF stage = "get_state" THEN 1 ELSE IF stage = "commit" THEN 2
    ELSE IF stage = "has_remote1" THEN 3 ELSE IF stage = "pull" THEN 4
    ELSE IF stage = "has_remote2" THEN 5 ELSE IF stage = "push" THEN 6 ELSE 7

RemoteTimestamps ==
    <<ts.last_pull_ts, ts.last_pull_attempt_ts, ts.last_push_ts, ts.last_push_attempt_ts>>

\* C23: update goes through commit, pull and push in this order.  It hands the
\* master state to commit_state exactly when that state is dirty, and calls
\* pull, and then push, exactly when has_remote has just answered true, which
\* it does when there is a remote and active_remote is set.  Without an
\* active remote nothing is pulled or pushed and the four timestamps of pull
\* and push stay as they are.
UpdateCommitsPullsPushes ==
    [][/\ \A t \in Threads :
            /\ CallsInUpdate(t) =>
                  /\ thr'[t].job.op = "commit_state" =>
                        /\ host[t].master_dirty
                        /\ thr'[t].job.state = host[t].master_state
                  /\ thr'[t].job.op \in {"pull", "push"} => (has_origin /\ active_remote)
            /\ ReturnsInUpdate(t) =>
                  /\ Rank(host'[t].stage) > Rank(host[t].stage)
                  /\ (thr[t].job.op = "get_state" /\ thr[t].res.kind = "state") =>
                        (host'[t].stage = "commit" <=> host'[t].master_dirty)
                  /\ (thr[t].job.op = "commit_state" /\ thr[t].res.kind # "raise") =>
                        host'[t].stage = "has_remote1"
                  /\ thr[t].job.op = "has_remote" =>
                        /\ thr[t].res.flag = (has_origin /\ active_remote)
                        /\ thr[t].res.flag =>
                              host'[t].stage = (IF host[t].stage = "has_remote1"
                                                THEN "pull" ELSE "push")
                        /\ ~thr[t].res.flag =>
                              host'[t].stage \notin {"pull", "push"}
                  /\ (thr[t].job.op = "pull" /\ thr[t].res.kind # "raise") =>
                        host'[t].stage = "has_remote2"
       /\ ~(has_origin /\ active_remote) =>
            /\ RemoteTimestamps' = RemoteTimestamps
            /\ \A i \in DOMAIN queue' : queue'[i].op \notin {"pull", "push"}]_vars

\* An update has committed, pulled and pushed: its push has returned, after
\* the pull of a remote that had nothing new.
UpdateRanThrough ==
    \E t \in Threads :
        /\ host[t].stage = "push"
        /\ thr[t].pc = "done"
        /\ thr[t].job.op = "push"
        /\ ts.last_pull_ts = 1
        /\ ts.last_push_ts = 1
        /\ ts.last_commit_ts = Len(commits)
        /\ host[t].master_dirty

\* The body of a commit_state that executor e runs ends in this step.
EndsCommit(e) == Running(e, "commit_state") /\ running'[e] = NoRun

\* index.commit is reached in that body: the State is the caller's own, the
\* checkout went through and the index differs from HEAD.
ReachesCommit(e) ==
    /\ running[e].job.state.user = master_user
    /\ running[e].staged
    /\ index # TreeOf(commits, heads[HEAD])

\* What the head of the user branch holds is not the State s.
NotCommitted(s) == TreeOf(commits, heads[master_user]) # <<s.user, s.payload>>

\* C24: a commit_state whose index.commit fails returns without raising, adds
\* no commit, leaves the user branch, last_commit_ts and the dirty flag of the
\* State as they were, and the next update hands that State to commit_state
\* again; a commit_state that makes a commit clears the flag.
FailedCommitIsRetried ==
    [][/\ \A e \in Executors : EndsCommit(e) =>
            \E t \in {running[e].job.t} :
               /\ (ReachesCommit(e) /\ commits' = commits) =>
                     /\ thr'[t].res.kind # "raise"
                     /\ heads' = heads
                     /\ ts' = ts
                     /\ thr'[t].job.dirty = thr[t].job.dirty
               /\ commits' # commits => ~thr'[t].job.dirty
       /\ \A t \in Threads :
            (/\ ReturnsInUpdate(t)
             /\ thr[t].job.op = "get_state"
             /\ host[t].held_dirty
             /\ NotCommitted(host[t].held)) =>
                /\ host'[t].stage = "commit"
                /\ host'[t].master_state = host[t].held]_vars

\* The default the operation declares for its priority parameter.
DeclaredPriority(op) ==
    IF op \in {"pull", "push"} THEN AVERAGE
    ELSE IF op = "has_remote" THEN FAST
    ELSE SLOW

\* C25: a job is enqueued with the priority its caller passed and, when the
\* caller passed none, with the default its operation declares: AVERAGE for
\* pull and push, FAST for has_remote, SLOW for the others.
EnqueuedWithDeclaredPriority ==
    \A i \in DOMAIN queue :
        Priority(queue[i]) = IF queue[i].prio # NoPriority THEN queue[i].prio
                             ELSE DeclaredPriority(queue[i].op)

\* The construction of c is refused in this step while another Client holds
\* the lock of the repository.
RefusedBesideLiveClient(c) ==
    /\ clients[c].status = "none"
    /\ clients'[c].status = "failed"
    /\ clients'[c].error \in {"LockContention", "AlreadyExists"}
    /\ \E d \in ClientIds \ {c} : clients[d].status = "started" /\ clients[d].repo_lock = "held"

\* C26: a construction that is refused with the lock-contention error or with
\* 'already exists' while another Client holds the repository has changed
\* nothing of it: not its branches, not the checked-out branch, not the index,
\* not its commits.
RefusedClientChangesNothing ==
    [][\A c \in ClientIds : RefusedBesideLiveClient(c) =>
          /\ heads' = heads
          /\ HEAD' = HEAD
          /\ index' = index
          /\ commits' = commits]_vars
====
